---------------------------- MODULE Spec2Model ----------------------------
(***************************************************************************)
(* A model of the git-operations plugin: the validators, the allowlisted   *)
(* process runner runGit, and the tool handlers built on them.             *)
(*                                                                         *)
(* A JavaScript string is a sequence of one-character strings, so that     *)
(* startsWith, includes and the regular expressions are computed on the    *)
(* characters.  Five characters have a name instead of a glyph: "LF",      *)
(* "CR", "BACKSLASH", "BACKTICK" and "DQUOTE".                             *)
(***************************************************************************)
EXTENDS Naturals, Integers, Sequences, FiniteSets, TLC

VARIABLES
  cfg,     \* the resolved GitOpsConfig (written once by register)
  head,    \* the repository: the branch HEAD names, or Detached
  op,      \* op[s]: the tool operation running in slot s
  files,   \* the temporary payload files that exist
  vin,     \* validator check: the candidate token
  vout,    \* validator check: what each validator returned for vin
  rg       \* runGit check: one call of runGit and its child process

vars == <<cfg, head, op, files, vin, vout, rg>>

(***************************************************************************)
(* Bounds of the model.                                                    *)
(***************************************************************************)
MaxLen == 2     \* longest candidate token given to the validators
MaxArgs == 2    \* longest argument vector given to runGit directly
NumOps == 2     \* tool operations that run concurrently
MaxText == 4    \* longest text given to truncateOutput
MaxLimit == 3   \* largest line limit given to truncateOutput

(***************************************************************************)
(* String helpers (String.prototype.startsWith, endsWith, includes, trim). *)
(***************************************************************************)
StartsWith(s, p) == Len(s) >= Len(p) /\ SubSeq(s, 1, Len(p)) = p

EndsWith(s, p) == Len(s) >= Len(p) /\ SubSeq(s, Len(s) - Len(p) + 1, Len(s)) = p

Includes(s, p) == \E i \in 1..(Len(s) - Len(p) + 1) : SubSeq(s, i, i + Len(p) - 1) = p

WhiteSpace == {" ", "LF", "CR"}

RECURSIVE TrimStart(_)
TrimStart(s) == IF s # <<>> /\ Head(s) \in WhiteSpace THEN TrimStart(Tail(s)) ELSE s

RECURSIVE TrimEnd(_)
TrimEnd(s) ==
  IF s # <<>> /\ s[Len(s)] \in WhiteSpace THEN TrimEnd(SubSeq(s, 1, Len(s) - 1)) ELSE s

Trim(s) == TrimEnd(TrimStart(s))

(***************************************************************************)
(* The literals of the source, as character sequences.                     *)
(***************************************************************************)
S_status == <<"s", "t", "a", "t", "u", "s">>
S_diff == <<"d", "i", "f", "f">>
S_log == <<"l", "o", "g">>
S_branch == <<"b", "r", "a", "n", "c", "h">>
S_add == <<"a", "d", "d">>
S_commit == <<"c", "o", "m", "m", "i", "t">>
S_push == <<"p", "u", "s", "h">>
S_pull == <<"p", "u", "l", "l">>
S_stash == <<"s", "t", "a", "s", "h">>
S_blame == <<"b", "l", "a", "m", "e">>
S_rev_parse == <<"r", "e", "v", "-", "p", "a", "r", "s", "e">>
S_symbolic_ref == <<"s", "y", "m", "b", "o", "l", "i", "c", "-", "r", "e", "f">>
S_remote == <<"r", "e", "m", "o", "t", "e">>
S_checkout == <<"c", "h", "e", "c", "k", "o", "u", "t">>
S_switch == <<"s", "w", "i", "t", "c", "h">>
S_fetch == <<"f", "e", "t", "c", "h">>
S_merge == <<"m", "e", "r", "g", "e">>
S_rebase == <<"r", "e", "b", "a", "s", "e">>
S_tag == <<"t", "a", "g">>
S_show == <<"s", "h", "o", "w">>
S_config == <<"c", "o", "n", "f", "i", "g">>
F_dashdash == <<"-", "-">>
F_cached == <<"-", "-", "c", "a", "c", "h", "e", "d">>
F_name_only == <<"-", "-", "n", "a", "m", "e", "-", "o", "n", "l", "y">>
F_v == <<"-", "v">>
F_a == <<"-", "a">>
F_d == <<"-", "d">>
F_file == <<"-", "-", "f", "i", "l", "e">>
F_force_with_lease == <<"-", "-", "f", "o", "r", "c", "e", "-", "w", "i", "t", "h", "-", "l", "e", "a", "s", "e">>
F_u == <<"-", "u">>
F_dry_run == <<"-", "-", "d", "r", "y", "-", "r", "u", "n">>
F_rebase == <<"-", "-", "r", "e", "b", "a", "s", "e">>
F_oneline == <<"-", "-", "o", "n", "e", "l", "i", "n", "e">>
F_format == <<"-", "-", "f", "o", "r", "m", "a", "t", "=", "%", "h", " ", "%", "a", "n", " ", "%", "a", "d", " ", "%", "s">>
F_date_short == <<"-", "-", "d", "a", "t", "e", "=", "s", "h", "o", "r", "t">>
F_author == <<"-", "-", "a", "u", "t", "h", "o", "r", "=">>
F_since == <<"-", "-", "s", "i", "n", "c", "e", "=">>
F_grep == <<"-", "-", "g", "r", "e", "p", "=">>
F_is_inside_work_tree == <<"-", "-", "i", "s", "-", "i", "n", "s", "i", "d", "e", "-", "w", "o", "r", "k", "-", "t", "r", "e", "e">>
F_short == <<"-", "-", "s", "h", "o", "r", "t">>
F_HEAD == <<"H", "E", "A", "D">>
F_L == <<"-", "L">>
F_plus20 == <<",", "+", "2", "0">>
G_pr == <<"p", "r">>
G_create == <<"c", "r", "e", "a", "t", "e">>
G_title == <<"-", "-", "t", "i", "t", "l", "e">>
G_body_file == <<"-", "-", "b", "o", "d", "y", "-", "f", "i", "l", "e">>
G_base == <<"-", "-", "b", "a", "s", "e">>
G_draft == <<"-", "-", "d", "r", "a", "f", "t">>
G_label == <<"-", "-", "l", "a", "b", "e", "l">>
G_version == <<"-", "-", "v", "e", "r", "s", "i", "o", "n">>
T_true == <<"t", "r", "u", "e">>
T_detached_at == <<"(", "d", "e", "t", "a", "c", "h", "e", "d", " ", "a", "t", " ">>
T_detached == <<"(", "d", "e", "t", "a", "c", "h", "e", "d">>
T_lock == <<".", "l", "o", "c", "k">>
T_dotdot == <<".", ".">>
T_atbrace == <<"@", "{">>

(***************************************************************************)
(* Validation.                                                             *)
(***************************************************************************)
null == "null"      \* a validator's null: the token is accepted

Lower == {"a", "b", "c", "d", "e", "f", "g", "h", "i", "j", "k", "l", "m",
          "n", "o", "p", "q", "r", "s", "t", "u", "v", "w", "x", "y", "z"}
Upper == {"A", "B", "C", "D", "E", "F", "G", "H", "I", "J", "K", "L", "M",
          "N", "O", "P", "Q", "R", "S", "T", "U", "V", "W", "X", "Y", "Z"}
Digit == {"0", "1", "2", "3", "4", "5", "6", "7", "8", "9"}

\* /^[a-zA-Z0-9._\/-]+$/ : one or more characters, all of the class
BRANCH_RE(s) == s # <<>> /\ \A i \in 1..Len(s) : s[i] \in Lower \cup Upper \cup Digit \cup {".", "_", "/", "-"}

\* faulty variant: the quotes are missing from the class
SHELL_META_noQuotes(s) ==
  \E i \in 1..Len(s) :
    s[i] \in {";", "&", "|", "BACKTICK", "$", "(", ")", "{", "}", "!", "#", "~", "<", ">",
              "*", "?", "[", "]", "LF", "CR", "BACKSLASH"}

\* /[;&|`$(){}!#~<>*?\[\]\n\r\\'"]/ : some character of the class occurs
SHELL_META(s) ==
  \E i \in 1..Len(s) :
    s[i] \in {";", "&", "|", "BACKTICK", "$", "(", ")", "{", "}", "!", "#", "~", "<", ">",
              "*", "?", "[", "]", "LF", "CR", "BACKSLASH", "'", "DQUOTE"}

validateBranchName(name) ==
  IF name = <<>> THEN "branch name cannot be empty"
  ELSE IF StartsWith(name, <<"-">>) THEN "branch name cannot start with a dash (looks like a flag)"
  ELSE IF StartsWith(name, <<".">>) \/ EndsWith(name, <<".">>) \/ EndsWith(name, T_lock)
    THEN "invalid branch name"
  ELSE IF \/ Includes(name, T_dotdot) \/ Includes(name, T_atbrace) \/ Includes(name, <<"~">>)
          \/ Includes(name, <<"^">>) \/ Includes(name, <<" ">>)
    THEN "branch name contains invalid characters"
  ELSE IF ~BRANCH_RE(name) THEN "branch name contains invalid characters: only a-z, 0-9, '.', '_', '/', '-' allowed"
  ELSE null

\* faulty variant: the dash test is lost with the dead metacharacter block
validateFilePath_noDash(p) == IF p = <<>> THEN "file path cannot be empty" ELSE null

\* The SHELL_META test of validateFilePath guards an empty block: it rejects nothing.
validateFilePath(p) ==
  IF p = <<>> THEN "file path cannot be empty"
  ELSE IF StartsWith(p, <<"-">>) THEN "file path cannot start with a dash"
  ELSE null

validateRef(ref) ==
  IF ref = <<>> THEN "ref cannot be empty"
  ELSE IF StartsWith(ref, <<"-">>) THEN "ref cannot start with a dash"
  ELSE IF SHELL_META(ref) THEN "ref contains invalid characters"
  ELSE null

(***************************************************************************)
(* validateRemoteName, validateLogFilter and validateLabel are imported    *)
(* from ./git.js, whose text with these three functions is not part of the *)
(* sources at hand.  They follow the specification, section 4.1: the dash  *)
(* and metacharacter discipline of validateRef.                            *)
(***************************************************************************)
validateRemoteName(remote) ==
  IF remote = <<>> THEN "remote name cannot be empty"
  ELSE IF StartsWith(remote, <<"-">>) THEN "remote name cannot start with a dash"
  ELSE IF SHELL_META(remote) THEN "remote name contains invalid characters"
  ELSE null

validateLogFilter(value, fieldName) ==
  IF value = <<>> THEN "filter cannot be empty"
  ELSE IF StartsWith(value, <<"-">>) THEN "filter cannot start with a dash"
  ELSE IF SHELL_META(value) THEN "filter contains invalid characters"
  ELSE null

validateLabel(label) ==
  IF label = <<>> THEN "label cannot be empty"
  ELSE IF StartsWith(label, <<"-">>) THEN "label cannot start with a dash"
  ELSE IF SHELL_META(label) THEN "label contains invalid characters"
  ELSE null

(***************************************************************************)
(* JavaScript values that are not strings: numbers, error codes, null.     *)
(***************************************************************************)
Num(n) == [type |-> "number", num |-> n, str |-> ""]
Str(s) == [type |-> "string", num |-> 0, str |-> s]
JsNull == [type |-> "null", num |-> 0, str |-> ""]
JsUndefined == [type |-> "undefined", num |-> 0, str |-> ""]   \* a local not yet assigned

Undef == <<"UNDEFINED">>   \* an absent optional parameter
Null == <<"NULL">>         \* getCurrentBranch's null
NoList == <<Undef>>        \* an absent optional array parameter

Truthy(s) == s # Undef /\ s # Null /\ s # <<>>

\* a ?? b
Coalesce(a, b) == IF a = Undef \/ a = Null THEN b ELSE a

(***************************************************************************)
(* The git command runner.                                                 *)
(***************************************************************************)
ALLOWED_SUBCOMMANDS ==
  {S_status, S_diff, S_log, S_branch, S_add, S_commit, S_push, S_pull,
   S_stash, S_blame, S_rev_parse, S_symbolic_ref, S_remote, S_checkout,
   S_switch, S_fetch, S_merge, S_rebase, S_tag, S_show, S_config}

\* faulty variant: the guard only asks for a subcommand, not for an allowed one
runGitBlocked_missingOnly(args) == args = <<>> \/ args[1] = <<>>

\* runGit's guard: !subcommand || !ALLOWED_SUBCOMMANDS.has(subcommand)
runGitBlocked(args) == args = <<>> \/ args[1] = <<>> \/ args[1] \notin ALLOWED_SUBCOMMANDS

T_blocked == <<"b", "l", "o", "c", "k", "e", "d", ":", " ", "g", "i", "t", " ", "s", "u", "b", "c", "o", "m", "m", "a", "n", "d", " ", "'">>
T_not_allowed == <<"'", " ", "i", "s", " ", "n", "o", "t", " ", "a", "l", "l", "o", "w", "e", "d">>

\* what runGit resolves with when the guard fires
runGitBlockedResult(args) ==
  [stdout |-> <<>>,
   stderr |-> T_blocked \o (IF args = <<>> THEN Undef ELSE args[1]) \o T_not_allowed,
   exitCode |-> Num(1)]

\* The errors execFile hands to its callback.
NoErr == [isErr |-> FALSE, hasCode |-> FALSE, code |-> JsNull]
ErrExit(n) == [isErr |-> TRUE, hasCode |-> TRUE, code |-> Num(n)]         \* the child exited n # 0
ErrSpawn == [isErr |-> TRUE, hasCode |-> TRUE, code |-> Str("ENOENT")]    \* the child could not start
ErrKilled == [isErr |-> TRUE, hasCode |-> TRUE, code |-> JsNull]           \* killed at the timeout (SIGTERM)
ErrMaxBuffer == [isErr |-> TRUE, hasCode |-> TRUE, code |-> Str("ERR_CHILD_PROCESS_STDIO_MAXBUFFER")]

\* execFile's callback in runGit (and the same lines in git_pr)
execFileCallback(err, stdout, stderr) ==
  [stdout |-> stdout,
   stderr |-> stderr,
   exitCode |-> IF err.isErr /\ err.hasCode THEN err.code
                ELSE IF err.isErr THEN Num(1) ELSE Num(0)]

(***************************************************************************)
(* What a child process can do.  OutText and ErrText stand for the text    *)
(* a command prints.                                                       *)
(***************************************************************************)
OutText == <<"o", "u", "t", "LF">>
ErrText == <<"f", "a", "t", "a", "l", "LF">>

Failures ==
  {[err |-> ErrExit(1), stdout |-> <<>>, stderr |-> ErrText],
   [err |-> ErrExit(128), stdout |-> OutText, stderr |-> <<>>],
   [err |-> ErrSpawn, stdout |-> <<>>, stderr |-> <<>>],
   [err |-> ErrKilled, stdout |-> <<>>, stderr |-> <<>>],
   [err |-> ErrMaxBuffer, stdout |-> OutText, stderr |-> <<>>]}

Exit0(stdout, stderr) == [err |-> NoErr, stdout |-> stdout, stderr |-> stderr]

\* a command of a tool: it prints something, nothing, or only to stderr, or fails
RunOutcomes == {Exit0(OutText, <<>>), Exit0(<<>>, <<>>), Exit0(<<>>, ErrText)} \cup Failures

\* git rev-parse --is-inside-work-tree
IsInsideOutcomes == {Exit0(T_true \o <<"LF">>, <<>>), Exit0(<<"f", "a", "l", "s", "e", "LF">>, <<>>)} \cup Failures

Detached == <<"DETACHED">>

\* git symbolic-ref --short HEAD prints the branch, and fails on a detached HEAD
SymbolicRefOutcomes(h) == (IF h = Detached THEN {} ELSE {Exit0(h \o <<"LF">>, <<>>)}) \cup Failures

AbbrevHash == <<"a", "b", "c", "1", "2", "3", "4">>

\* git rev-parse --short HEAD
RevParseHeadOutcomes == {Exit0(AbbrevHash \o <<"LF">>, <<>>)} \cup Failures

(***************************************************************************)
(* Configuration.                                                          *)
(***************************************************************************)
DEFAULTS ==
  [allowForcePush |-> FALSE, allowMainCommit |-> FALSE, defaultRemote |-> <<"o", "r", "i", "g", "i", "n">>,
   commitPrefix |-> <<>>, protectedBranches |-> << <<"m", "a", "i", "n">>, <<"m", "a", "s", "t", "e", "r">> >>]

\* raw: the plugin configuration, a set of fields that are present
resolveConfig(raw) ==
  [f \in DOMAIN DEFAULTS |-> IF f \in DOMAIN raw THEN raw[f] ELSE DEFAULTS[f]]

\* faulty variant: only the first protected branch is compared
isProtected_firstOnly(branch) == cfg.protectedBranches # <<>> /\ cfg.protectedBranches[1] = branch

\* cfg.protectedBranches.includes(branch)
isProtected(branch) == \E i \in 1..Len(cfg.protectedBranches) : cfg.protectedBranches[i] = branch

(***************************************************************************)
(* A tool operation.  Between two awaits a handler runs without            *)
(* interruption, so one action is the code from one await to the next: pc  *)
(* names the child process the handler waits for.                          *)
(***************************************************************************)
Slots == 1..NumOps

NoFile == [kind |-> "none", uuid |-> ""]
NoRet == [kind |-> "none", msg |-> "", val |-> <<>>]

Idle ==
  [tool |-> "none", p |-> <<>>, pc |-> "idle", branch |-> Undef, spawned |-> <<>>,
   pending |-> <<>>, msgFile |-> NoFile, wrote |-> FALSE, addResult |-> JsUndefined, ret |-> NoRet]

\* text(s)
text(o, msg, val) == [o EXCEPT !.pc = "returned", !.pending = <<>>, !.ret = [kind |-> "text", msg |-> msg, val |-> val]]

\* err(s) = text(`error: ${s}`); val is the value the message quotes
err(o, msg, val) == [o EXCEPT !.pc = "returned", !.pending = <<>>, !.ret = [kind |-> "error", msg |-> msg, val |-> val]]

\* an exception that leaves execute
throw(o, msg) == [o EXCEPT !.pc = "returned", !.pending = <<>>, !.ret = [kind |-> "throw", msg |-> msg, val |-> <<>>]]

\* await runGit(args): execFile("git", args) unless the guard blocks it
runGit(o, args, pc) ==
  [o EXCEPT !.pc = pc, !.pending = args,
            !.spawned = IF runGitBlocked(args) THEN @ ELSE Append(@, [exe |-> "git", args |-> args])]

\* await execFile("gh", args)
execGh(o, args, pc) ==
  [o EXCEPT !.pc = pc, !.pending = args, !.spawned = Append(@, [exe |-> "gh", args |-> args])]

\* the results the pending runGit call can resolve with
Resolved(o, outcomes) ==
  IF runGitBlocked(o.pending) THEN {runGitBlockedResult(o.pending)}
  ELSE {execFileCallback(x.err, x.stdout, x.stderr) : x \in outcomes}

Ok(r) == r.exitCode = Num(0)

\* isGitRepo's verdict on the result of rev-parse
isGitRepo(r) == Ok(r) /\ Trim(r.stdout) = T_true

NotARepo == "not a git repository (or any parent up to mount point)"

\* requireRepo threw: every handler returns err(e.message)
RequireRepoFailed(s) ==
  /\ op[s].pc = "requireRepo"
  /\ \E r \in Resolved(op[s], IsInsideOutcomes) :
       /\ ~isGitRepo(r)
       /\ op' = [op EXCEPT ![s] = err(@, NotARepo, <<>>)]
  /\ UNCHANGED <<cfg, head, files, vin, vout, rg>>

\* requireRepo passed in a handler of `tool`
RepoOk(s, tool) ==
  /\ op[s].pc = "requireRepo"
  /\ op[s].tool = tool
  /\ \E r \in Resolved(op[s], IsInsideOutcomes) : isGitRepo(r)

\* getCurrentBranch, its first await: symbolic-ref --short HEAD
getCurrentBranch(o) == runGit(o, <<S_symbolic_ref, F_short, F_HEAD>>, "symbolicRef")

\* getCurrentBranch after symbolic-ref failed: rev-parse --short HEAD
getCurrentBranchDetached(o) == runGit(o, <<S_rev_parse, F_short, F_HEAD>>, "revParseHead")

\* what getCurrentBranch returns after rev-parse --short HEAD resolved with r
DetachedBranch(r) == IF Ok(r) THEN T_detached_at \o Trim(r.stdout) \o <<")">> ELSE Null

\* the operation returned to its caller: the slot is free again
Return(s) ==
  /\ op[s].pc = "returned"
  /\ op' = [op EXCEPT ![s] = Idle]
  /\ UNCHANGED <<cfg, head, files, vin, vout, rg>>

(***************************************************************************)
(* git_branch                                                              *)
(***************************************************************************)
BranchAction(o) == IF o.p.action = "undefined" THEN "list" ELSE o.p.action

\* git_branch.execute from requireRepo to its runGit call or early return
git_branch_body(o) ==
  LET action == BranchAction(o)
      name == o.p.name
      nameErr == validateBranchName(name)
  IN  IF action = "list"
        THEN runGit(o, <<S_branch, F_v>> \o (IF o.p.all THEN <<F_a>> ELSE <<>>), "run")
      ELSE IF ~Truthy(name) THEN err(o, "branch name required for action", <<>>)
      ELSE IF nameErr # null THEN err(o, nameErr, <<>>)
      ELSE IF action = "create"
        THEN IF Truthy(o.p.startPoint)
               THEN IF validateRef(o.p.startPoint) # null
                      THEN err(o, validateRef(o.p.startPoint), <<>>)
                      ELSE runGit(o, <<S_branch, name, o.p.startPoint>>, "run")
               ELSE runGit(o, <<S_branch, name>>, "run")
      ELSE IF action = "switch" THEN runGit(o, <<S_switch, name>>, "run")
      ELSE IF action = "delete"
        THEN IF isProtected(name)
               THEN err(o, "cannot delete protected branch", name)
               ELSE runGit(o, <<S_branch, F_d, name>>, "run")
      ELSE err(o, "unknown action", <<>>)

GitBranch(s) ==
  /\ RepoOk(s, "git_branch")
  /\ op' = [op EXCEPT ![s] = git_branch_body(@)]
  /\ UNCHANGED <<cfg, head, files, vin, vout, rg>>

\* git_branch.execute after its runGit call resolved with r
git_branch_result(o, r) ==
  LET action == BranchAction(o)
  IN  IF ~Ok(r) THEN err(o, "", r.stderr)
      ELSE IF action = "list"
        THEN IF r.stdout # <<>> THEN text(o, "", r.stdout) ELSE text(o, "no branches", <<>>)
      ELSE IF action = "create" THEN text(o, "created branch", o.p.name)
      ELSE IF action = "switch" THEN text(o, "switched to", o.p.name)
      ELSE text(o, "deleted branch", o.p.name)

\* the child of git_branch ended; a `git switch` that exited 0 has moved HEAD
GitBranchDone(s) ==
  /\ op[s].pc = "run"
  /\ op[s].tool = "git_branch"
  /\ \E r \in Resolved(op[s], RunOutcomes) :
       /\ op' = [op EXCEPT ![s] = git_branch_result(@, r)]
       /\ head' = IF Ok(r) /\ BranchAction(op[s]) = "switch" THEN op[s].p.name ELSE head
  /\ UNCHANGED <<cfg, files, vin, vout, rg>>

(***************************************************************************)
(* git_push                                                                *)
(***************************************************************************)
\* branch.replace(/^\(detached.*\)$/, ""): "." matches no line terminator
ReplaceDetached(branch) ==
  IF /\ StartsWith(branch, T_detached)
     /\ Len(branch) > Len(T_detached)
     /\ branch[Len(branch)] = ")"
     /\ \A i \in (Len(T_detached) + 1)..(Len(branch) - 1) : branch[i] \notin {"LF", "CR"}
  THEN <<>> ELSE branch

PushRemote(o) == Coalesce(o.p.remote, cfg.defaultRemote)

RawForceFlag == <<"-", "-", "f", "o", "r", "c", "e">>

\* faulty variant: the raw flag is passed on
git_push_args_rawForce(o, branch) ==
  <<S_push>>
    \o (IF o.p.force THEN <<RawForceFlag>> ELSE <<>>)
    \o (IF o.p.setUpstream THEN <<F_u>> ELSE <<>>)
    \o (IF o.p.dryRun THEN <<F_dry_run>> ELSE <<>>)
    \o <<PushRemote(o)>>
    \o (IF Truthy(branch) /\ ~StartsWith(branch, T_detached) THEN <<branch>> ELSE <<>>)

\* the argument vector of git push
git_push_args(o, branch) ==
  <<S_push>>
    \o (IF o.p.force THEN <<F_force_with_lease>> ELSE <<>>)
    \o (IF o.p.setUpstream THEN <<F_u>> ELSE <<>>)
    \o (IF o.p.dryRun THEN <<F_dry_run>> ELSE <<>>)
    \o <<PushRemote(o)>>
    \o (IF Truthy(branch) /\ ~StartsWith(branch, T_detached) THEN <<branch>> ELSE <<>>)

ForcePushDisabled == "force push is disabled. set allowForcePush: true in config to enable."
ForcePushProtected == "force push to protected branch is always blocked."

\* faulty variant: the gate looks at allowForcePush only for a protected branch
forcePushDisabled_protectedOnly(o) == o.p.force /\ ~cfg.allowForcePush /\ isProtected(o.p.branch)

\* the force-push gate: if (force) { if (!cfg.allowForcePush) return err(...) }
forcePushDisabled(o) == o.p.force /\ ~cfg.allowForcePush

\* the protected-branch gate of git_push
forcePushProtected(o, branch) == o.p.force /\ Truthy(branch) /\ isProtected(branch)

\* git_push.execute once branch is known: the validation of the branch, the
\* force-push gates, and the runGit call
git_push_gate(o, branch) ==
  LET b == [o EXCEPT !.branch = branch]
      nameErr == validateBranchName(ReplaceDetached(branch))
  IN  IF Truthy(branch) /\ nameErr # null /\ ~StartsWith(branch, T_detached)
        THEN err(b, nameErr, <<>>)
      ELSE IF forcePushDisabled(o) THEN err(b, ForcePushDisabled, <<>>)
      ELSE IF forcePushProtected(o, branch) THEN err(b, ForcePushProtected, branch)
      ELSE runGit(b, git_push_args(o, branch), "run")

\* git_push.execute from requireRepo to the first await after it
git_push_body(o) ==
  IF validateRemoteName(PushRemote(o)) # null THEN err(o, validateRemoteName(PushRemote(o)), <<>>)
  ELSE IF o.p.branch \in {Undef, Null} THEN getCurrentBranch(o)
  ELSE git_push_gate(o, o.p.branch)

GitPush(s) ==
  /\ RepoOk(s, "git_push")
  /\ op' = [op EXCEPT ![s] = git_push_body(@)]
  /\ UNCHANGED <<cfg, head, files, vin, vout, rg>>

\* getCurrentBranch in git_push: symbolic-ref resolved
GitPushSymbolicRef(s) ==
  /\ op[s].pc = "symbolicRef"
  /\ op[s].tool = "git_push"
  /\ \E r \in Resolved(op[s], SymbolicRefOutcomes(head)) :
       op' = [op EXCEPT ![s] = IF Ok(r) THEN git_push_gate(@, Trim(r.stdout))
                               ELSE getCurrentBranchDetached(@)]
  /\ UNCHANGED <<cfg, head, files, vin, vout, rg>>

\* getCurrentBranch in git_push: rev-parse --short HEAD resolved
GitPushRevParse(s) ==
  /\ op[s].pc = "revParseHead"
  /\ op[s].tool = "git_push"
  /\ \E r \in Resolved(op[s], RevParseHeadOutcomes) :
       op' = [op EXCEPT ![s] = git_push_gate(@, DetachedBranch(r))]
  /\ UNCHANGED <<cfg, head, files, vin, vout, rg>>

\* git_push.execute after git push resolved with r
git_push_result(o, r) ==
  IF ~Ok(r) THEN err(o, "", r.stderr)
  ELSE IF r.stderr # <<>> THEN text(o, "", r.stderr)
  ELSE IF r.stdout # <<>> THEN text(o, "", r.stdout)
  ELSE text(o, "pushed successfully", <<>>)

GitPushDone(s) ==
  /\ op[s].pc = "run"
  /\ op[s].tool = "git_push"
  /\ \E r \in Resolved(op[s], RunOutcomes) : op' = [op EXCEPT ![s] = git_push_result(@, r)]
  /\ UNCHANGED <<cfg, head, files, vin, vout, rg>>

(***************************************************************************)
(* Temporary payload files.  A file is its path, what it holds, and (for   *)
(* the ownership claims only) the slot whose operation created it.         *)
(***************************************************************************)
UuidNames == <<"uuid-1", "uuid-2", "uuid-3", "uuid-4">>

\* randomUUID(): 122 random bits, so a value no file and no running operation holds
randomUUID == {UuidNames[i] : i \in Slots} \ ({f.path.uuid : f \in files} \cup {op[s].msgFile.uuid : s \in Slots})

\* faulty variant: a fixed file name instead of a random one
TmpPath_fixedName(kind, uuid) == [kind |-> kind, uuid |-> "uuid-1"]

\* join(tmpdir(), `openclaw-git-msg-${uuid}.txt`) and `openclaw-pr-body-${uuid}.md`
TmpPath(kind, uuid) == [kind |-> kind, uuid |-> uuid]

\* the path as an element of an argument vector
PathArg(path) ==
  IF path.kind = "msg" THEN <<"/tmp/openclaw-git-msg-", path.uuid, ".txt">>
  ELSE <<"/tmp/openclaw-pr-body-", path.uuid, ".md">>

\* The "utf-8" encoding of writeFileSync: an unpaired surrogate ("SURROGATE")
\* cannot be encoded and is written as U+FFFD.
Utf8(s) == [i \in 1..Len(s) |-> IF s[i] = "SURROGATE" THEN "U+FFFD" ELSE s[i]]

\* writeFileSync(path, data, "utf-8") that succeeds: creates or replaces the file
writeFileSync(fs, path, data, owner) ==
  {f \in fs : f.path # path} \cup {[path |-> path, content |-> Utf8(data), owner |-> owner]}

\* writeFileSync that throws: the file was opened (and exists, empty) or not
writeFileSyncThrows(fs, path, owner, opened) ==
  IF opened THEN {f \in fs : f.path # path} \cup {[path |-> path, content |-> <<>>, owner |-> owner]}
  ELSE fs

\* try { unlinkSync(path) } catch {}
unlinkSync(fs, path) == {f \in fs : f.path # path}

WriteOutcomes == {"written", "failed-opened", "failed-unopened"}

(***************************************************************************)
(* git_commit                                                              *)
(***************************************************************************)
MainCommitBlocked == "direct commits are blocked. set allowMainCommit: true in config to override."

\* faulty variant: the prefix is dropped
CommitMessage_noPrefix(o) == o.p.message

\* let message = params.message; if (cfg.commitPrefix) message = prefix + message
CommitMessage(o) == IF cfg.commitPrefix # <<>> THEN cfg.commitPrefix \o o.p.message ELSE o.p.message

\* ["commit", "--file", msgFile], and splice(1, 0, "-a") when params.all
git_commit_args(o, msgFile) ==
  IF o.p.all THEN <<S_commit, F_a, F_file, PathArg(msgFile)>>
  ELSE <<S_commit, F_file, PathArg(msgFile)>>

\* the try block of git_commit up to its await: the message file is written and
\* git commit is spawned; when the write throws, finally unlinks and the
\* exception leaves execute
git_commit_write(s, o) ==
  \E uuid \in randomUUID, w \in WriteOutcomes :
    LET msgFile == TmpPath("msg", uuid)
    IN  IF w = "written"
          THEN /\ files' = writeFileSync(files, msgFile, CommitMessage(o), s)
               /\ op' = [op EXCEPT ![s] = runGit([o EXCEPT !.msgFile = msgFile, !.wrote = TRUE],
                                                 git_commit_args(o, msgFile), "commit")]
          ELSE /\ files' = unlinkSync(writeFileSyncThrows(files, msgFile, s, w = "failed-opened"), msgFile)
               /\ op' = [op EXCEPT ![s] = throw(o, "writeFileSync failed")]

\* the first entry of files that validateFilePath rejects, or 0
FirstInvalid(fs) ==
  IF \E i \in 1..Len(fs) : validateFilePath(fs[i]) # null
    THEN CHOOSE i \in 1..Len(fs) :
           /\ validateFilePath(fs[i]) # null
           /\ \A j \in 1..(i - 1) : validateFilePath(fs[j]) = null
    ELSE 0

\* faulty variant: the flag is read the wrong way round
mainCommitDenied_inverted(branch) == Truthy(branch) /\ cfg.allowMainCommit /\ isProtected(branch)

\* the main-commit gate: branch && !cfg.allowMainCommit && isProtected(branch)
mainCommitDenied(branch) == Truthy(branch) /\ ~cfg.allowMainCommit /\ isProtected(branch)

\* git_commit.execute once getCurrentBranch returned: the main-commit gate, the
\* validation of files and git add, or the commit itself
\* faulty variant: git add is spawned before the entries are validated
git_commit_gate_addUnvalidated(s, branch) ==
  LET o == [op[s] EXCEPT !.branch = branch]
      fs == o.p.files
  IN  IF mainCommitDenied(branch)
        THEN op' = [op EXCEPT ![s] = err(o, MainCommitBlocked, branch)] /\ files' = files
      ELSE IF fs # NoList /\ Len(fs) > 0
        THEN /\ files' = files
             /\ op' = [op EXCEPT ![s] = runGit(o, <<S_add, F_dashdash>> \o fs, "add")]
      ELSE git_commit_write(s, o)

git_commit_gate(s, branch) ==
  LET o == [op[s] EXCEPT !.branch = branch]
      fs == o.p.files
  IN  IF mainCommitDenied(branch)
        THEN op' = [op EXCEPT ![s] = err(o, MainCommitBlocked, branch)] /\ files' = files
      ELSE IF fs # NoList /\ Len(fs) > 0
        THEN /\ files' = files
             /\ op' = [op EXCEPT ![s] =
                         IF FirstInvalid(fs) # 0 THEN err(o, validateFilePath(fs[FirstInvalid(fs)]), fs[FirstInvalid(fs)])
                         ELSE runGit(o, <<S_add, F_dashdash>> \o fs, "add")]
      ELSE git_commit_write(s, o)

\* requireRepo passed: getCurrentBranch is awaited
GitCommit(s) ==
  /\ RepoOk(s, "git_commit")
  /\ op' = [op EXCEPT ![s] = getCurrentBranch(@)]
  /\ UNCHANGED <<cfg, head, files, vin, vout, rg>>

GitCommitSymbolicRef(s) ==
  /\ op[s].pc = "symbolicRef"
  /\ op[s].tool = "git_commit"
  /\ \E r \in Resolved(op[s], SymbolicRefOutcomes(head)) :
       IF Ok(r) THEN git_commit_gate(s, Trim(r.stdout))
       ELSE op' = [op EXCEPT ![s] = getCurrentBranchDetached(@)] /\ files' = files
  /\ UNCHANGED <<cfg, head, vin, vout, rg>>

GitCommitRevParse(s) ==
  /\ op[s].pc = "revParseHead"
  /\ op[s].tool = "git_commit"
  /\ \E r \in Resolved(op[s], RevParseHeadOutcomes) : git_commit_gate(s, DetachedBranch(r))
  /\ UNCHANGED <<cfg, head, vin, vout, rg>>

\* git add resolved
GitCommitAdd(s) ==
  /\ op[s].pc = "add"
  /\ \E r \in Resolved(op[s], RunOutcomes) :
       LET o == [op[s] EXCEPT !.addResult = r.exitCode]
       IN  IF ~Ok(r) THEN op' = [op EXCEPT ![s] = err(o, "staging failed", r.stderr)] /\ files' = files
           ELSE git_commit_write(s, o)
  /\ UNCHANGED <<cfg, head, vin, vout, rg>>

\* git_commit.execute after git commit resolved with r (before finally)
git_commit_result(o, r) ==
  IF ~Ok(r) THEN err(o, "", IF r.stderr # <<>> THEN r.stderr ELSE r.stdout)
  ELSE text(o, "", r.stdout)

\* the finally block of git_commit: the file to unlink
git_commit_finally(fs, o) == unlinkSync(fs, o.msgFile)

\* git commit resolved: the result is returned through finally
GitCommitDone(s) ==
  /\ op[s].pc = "commit"
  /\ \E r \in Resolved(op[s], RunOutcomes) : op' = [op EXCEPT ![s] = git_commit_result(@, r)]
  /\ files' = git_commit_finally(files, op[s])
  /\ UNCHANGED <<cfg, head, vin, vout, rg>>

(***************************************************************************)
(* Output post-processing.                                                 *)
(***************************************************************************)
MAX_DIFF_LINES == 500
MAX_LOG_ENTRIES == 200

\* text.split("\n")
RECURSIVE Split(_)
Split(s) ==
  IF \A i \in 1..Len(s) : s[i] # "LF" THEN <<s>>
  ELSE LET k == CHOOSE i \in 1..Len(s) : s[i] = "LF" /\ \A j \in 1..(i - 1) : s[j] # "LF"
       IN  <<SubSeq(s, 1, k - 1)>> \o Split(SubSeq(s, k + 1, Len(s)))

\* lines.join("\n")
RECURSIVE Join(_, _)
Join(lines, sep) ==
  IF lines = <<>> THEN <<>>
  ELSE IF Len(lines) = 1 THEN lines[1]
  ELSE lines[1] \o sep \o Join(Tail(lines), sep)

DigitChars == <<"0", "1", "2", "3", "4", "5", "6", "7", "8", "9">>

\* `${n}` for a non-negative integer
RECURSIVE NumToStr(_)
NumToStr(n) == IF n < 10 THEN <<DigitChars[n + 1]>> ELSE NumToStr(n \div 10) \o <<DigitChars[(n % 10) + 1]>>

L_output == <<"o", "u", "t", "p", "u", "t">>
L_diff == <<"d", "i", "f", "f">>
L_log == <<"l", "o", "g">>
L_blame == <<"b", "l", "a", "m", "e">>
T_truncated == <<"LF", ".", ".", ".", " ", "t", "r", "u", "n", "c", "a", "t", "e", "d", " ", "(">>
T_more_lines_of == <<" ", "m", "o", "r", "e", " ", "l", "i", "n", "e", "s", " ", "o", "f", " ">>
T_binary_files == <<"B", "i", "n", "a", "r", "y", " ", "f", "i", "l", "e", "s">>
T_differ == <<"d", "i", "f", "f", "e", "r">>
T_binary_skipped == <<" ", "[", "b", "i", "n", "a", "r", "y", " ", "EMDASH", " ", "s", "k", "i", "p", "p", "e", "d", "]">>
T_no_commits == <<"d", "o", "e", "s", " ", "n", "o", "t", " ", "h", "a", "v", "e", " ", "a", "n", "y", " ", "c", "o", "m", "m", "i", "t", "s">>

\* faulty variant: one line too few is kept
truncateOutput_keepsOneLess(txt, maxLines, label) ==
  LET lines == Split(txt)
  IN  IF Len(lines) <= maxLines THEN txt
      ELSE Join(Append(SubSeq(lines, 1, maxLines - 1),
                       T_truncated \o NumToStr(Len(lines) - maxLines) \o T_more_lines_of \o label \o <<")">>),
                <<"LF">>)

truncateOutput(txt, maxLines, label) ==
  LET lines == Split(txt)
  IN  IF Len(lines) <= maxLines THEN txt
      ELSE Join(Append(SubSeq(lines, 1, maxLines),
                       T_truncated \o NumToStr(Len(lines) - maxLines) \o T_more_lines_of \o label \o <<")">>),
                <<"LF">>)

filterBinaryDiffs(txt) ==
  LET lines == Split(txt)
  IN  Join([i \in 1..Len(lines) |->
              IF StartsWith(lines[i], T_binary_files) /\ Includes(lines[i], T_differ)
                THEN lines[i] \o T_binary_skipped ELSE lines[i]],
           <<"LF">>)

(***************************************************************************)
(* Helpers of the read-only tools.                                         *)
(***************************************************************************)
NoNum == -1     \* an absent optional number parameter

\* faulty variant: the paths follow without the separator
PathArgs_noSeparator(paths) == IF paths # NoList /\ Len(paths) > 0 THEN paths ELSE <<>>

\* the paths of git_diff and git_log: "--" and then each path, validated in order
PathArgs(paths) == IF paths # NoList /\ Len(paths) > 0 THEN <<F_dashdash>> \o paths ELSE <<>>

PathsInvalid(paths) == paths # NoList /\ FirstInvalid(paths) # 0

\* the child of a tool that keeps no state ended: nothing but op changes
RunDone(s, tool) ==
  /\ op[s].pc = "run"
  /\ op[s].tool = tool
  /\ UNCHANGED <<cfg, head, files, vin, vout, rg>>

(***************************************************************************)
(* git_diff                                                                *)
(***************************************************************************)
git_diff_body(o) ==
  LET p == o.p
      flags == (IF p.staged THEN <<F_cached>> ELSE <<>>) \o (IF p.nameOnly THEN <<F_name_only>> ELSE <<>>)
      refs == (IF Truthy(p.ref1) THEN <<p.ref1>> ELSE <<>>) \o (IF Truthy(p.ref2) THEN <<p.ref2>> ELSE <<>>)
  IN  IF Truthy(p.ref1) /\ validateRef(p.ref1) # null THEN err(o, validateRef(p.ref1), <<>>)
      ELSE IF Truthy(p.ref2) /\ validateRef(p.ref2) # null THEN err(o, validateRef(p.ref2), <<>>)
      ELSE IF PathsInvalid(p.paths)
        THEN err(o, validateFilePath(p.paths[FirstInvalid(p.paths)]), p.paths[FirstInvalid(p.paths)])
      ELSE runGit(o, <<S_diff>> \o flags \o refs \o PathArgs(p.paths), "run")

GitDiff(s) ==
  /\ RepoOk(s, "git_diff")
  /\ op' = [op EXCEPT ![s] = git_diff_body(@)]
  /\ UNCHANGED <<cfg, head, files, vin, vout, rg>>

git_diff_result(o, r) ==
  IF ~Ok(r) THEN err(o, "", r.stderr)
  ELSE IF Trim(r.stdout) = <<>> THEN text(o, "no changes", <<>>)
  ELSE text(o, "", truncateOutput(filterBinaryDiffs(r.stdout), MAX_DIFF_LINES, L_diff))

GitDiffDone(s) ==
  /\ RunDone(s, "git_diff")
  /\ \E r \in Resolved(op[s], RunOutcomes) : op' = [op EXCEPT ![s] = git_diff_result(@, r)]

(***************************************************************************)
(* git_log                                                                 *)
(***************************************************************************)
Min(a, b) == IF a <= b THEN a ELSE b

\* Math.min(params.count ?? 20, MAX_LOG_ENTRIES)
LogCount(o) == Min(IF o.p.count = NoNum THEN 20 ELSE o.p.count, MAX_LOG_ENTRIES)

git_log_body(o) ==
  LET p == o.p
      format == IF p.oneline THEN <<F_oneline>> ELSE <<F_format, F_date_short>>
      ref == IF Truthy(p.ref) THEN <<p.ref>> ELSE <<>>
      author == IF Truthy(p.author) THEN <<F_author \o p.author>> ELSE <<>>
      since == IF Truthy(p.since) THEN <<F_since \o p.since>> ELSE <<>>
      grep == IF Truthy(p.grep) THEN <<F_grep \o p.grep>> ELSE <<>>
  IN  IF Truthy(p.ref) /\ validateRef(p.ref) # null THEN err(o, validateRef(p.ref), <<>>)
      ELSE IF Truthy(p.author) /\ validateLogFilter(p.author, "author") # null
        THEN err(o, validateLogFilter(p.author, "author"), <<>>)
      ELSE IF Truthy(p.since) /\ validateLogFilter(p.since, "since") # null
        THEN err(o, validateLogFilter(p.since, "since"), <<>>)
      ELSE IF Truthy(p.grep) /\ validateLogFilter(p.grep, "grep") # null
        THEN err(o, validateLogFilter(p.grep, "grep"), <<>>)
      ELSE IF PathsInvalid(p.paths)
        THEN err(o, validateFilePath(p.paths[FirstInvalid(p.paths)]), p.paths[FirstInvalid(p.paths)])
      ELSE runGit(o, <<S_log, <<"-">> \o NumToStr(LogCount(o))>> \o format \o ref \o author \o since \o grep
                       \o PathArgs(p.paths), "run")

GitLog(s) ==
  /\ RepoOk(s, "git_log")
  /\ op' = [op EXCEPT ![s] = git_log_body(@)]
  /\ UNCHANGED <<cfg, head, files, vin, vout, rg>>

\* git log in a repository without commits
LogOutcomes == RunOutcomes \cup {[err |-> ErrExit(128), stdout |-> <<>>, stderr |-> T_no_commits]}

git_log_result(o, r) ==
  IF ~Ok(r)
    THEN IF Includes(r.stderr, T_no_commits) THEN text(o, "no commits yet", <<>>) ELSE err(o, "", r.stderr)
  ELSE IF Trim(r.stdout) = <<>> THEN text(o, "no commits found", <<>>)
  ELSE text(o, "", truncateOutput(r.stdout, MAX_LOG_ENTRIES, L_log))

GitLogDone(s) ==
  /\ RunDone(s, "git_log")
  /\ \E r \in Resolved(op[s], LogOutcomes) : op' = [op EXCEPT ![s] = git_log_result(@, r)]

(***************************************************************************)
(* git_pull                                                                *)
(***************************************************************************)
git_pull_body(o) ==
  LET p == o.p
  IN  IF Truthy(p.remote) /\ validateRemoteName(p.remote) # null THEN err(o, validateRemoteName(p.remote), <<>>)
      ELSE IF Truthy(p.branch) /\ validateRef(p.branch) # null THEN err(o, validateRef(p.branch), <<>>)
      ELSE runGit(o, <<S_pull>> \o (IF p.rebase THEN <<F_rebase>> ELSE <<>>)
                       \o (IF Truthy(p.remote) THEN <<p.remote>> ELSE <<>>)
                       \o (IF Truthy(p.branch) THEN <<p.branch>> ELSE <<>>), "run")

GitPull(s) ==
  /\ RepoOk(s, "git_pull")
  /\ op' = [op EXCEPT ![s] = git_pull_body(@)]
  /\ UNCHANGED <<cfg, head, files, vin, vout, rg>>

git_pull_result(o, r) ==
  IF ~Ok(r) THEN err(o, "", r.stderr)
  ELSE IF r.stdout # <<>> THEN text(o, "", r.stdout)
  ELSE IF r.stderr # <<>> THEN text(o, "", r.stderr)
  ELSE text(o, "up to date", <<>>)

GitPullDone(s) ==
  /\ RunDone(s, "git_pull")
  /\ \E r \in Resolved(op[s], RunOutcomes) : op' = [op EXCEPT ![s] = git_pull_result(@, r)]

(***************************************************************************)
(* git_blame                                                               *)
(***************************************************************************)
\* a number parameter is truthy when it is present and not 0
TruthyNum(n) == n # NoNum /\ n # 0

\* faulty variant: git blame is started before the path is validated
git_blame_body_spawnFirst(o) ==
  LET started == runGit(o, <<S_blame, F_dashdash, o.p.file>>, "run")
  IN  IF validateFilePath(o.p.file) # null THEN err(started, validateFilePath(o.p.file), <<>>) ELSE started

git_blame_body(o) ==
  LET p == o.p
      range == IF TruthyNum(p.startLine) /\ TruthyNum(p.endLine)
                 THEN << F_L \o NumToStr(p.startLine) \o <<",">> \o NumToStr(p.endLine) >>
               ELSE IF TruthyNum(p.startLine) THEN << F_L \o NumToStr(p.startLine) \o F_plus20 >>
               ELSE <<>>
  IN  IF validateFilePath(p.file) # null THEN err(o, validateFilePath(p.file), <<>>)
      ELSE runGit(o, <<S_blame>> \o range \o <<F_dashdash, p.file>>, "run")

GitBlame(s) ==
  /\ RepoOk(s, "git_blame")
  /\ op' = [op EXCEPT ![s] = git_blame_body(@)]
  /\ UNCHANGED <<cfg, head, files, vin, vout, rg>>

git_blame_result(o, r) ==
  IF ~Ok(r) THEN err(o, "", r.stderr)
  ELSE text(o, "", truncateOutput(r.stdout, MAX_DIFF_LINES, L_blame))

GitBlameDone(s) ==
  /\ RunDone(s, "git_blame")
  /\ \E r \in Resolved(op[s], RunOutcomes) : op' = [op EXCEPT ![s] = git_blame_result(@, r)]

(***************************************************************************)
(* git_stash                                                               *)
(***************************************************************************)
K_list == <<"l", "i", "s", "t">>
K_push == <<"p", "u", "s", "h">>
K_pop == <<"p", "o", "p">>
K_drop == <<"d", "r", "o", "p">>
K_show == <<"s", "h", "o", "w">>
F_m == <<"-", "m">>
F_p == <<"-", "p">>
T_stash_at == <<"s", "t", "a", "s", "h", "@", "{">>
L_stash_diff == <<"s", "t", "a", "s", "h", " ", "d", "i", "f", "f">>

\* (params.action as string) ?? "push"
StashAction(o) == IF o.p.action = "undefined" THEN "push" ELSE o.p.action

\* Math.max(0, Math.floor((params.index as number) ?? 0)), on integers
StashIndex(o) == IF o.p.index < 0 THEN 0 ELSE o.p.index

\* `stash@{${idx}}`
StashRef(o) == T_stash_at \o NumToStr(StashIndex(o)) \o <<"}">>

git_stash_body(o) ==
  LET action == StashAction(o)
  IN  IF action = "list" THEN runGit(o, <<S_stash, K_list>>, "run")
      ELSE IF action = "push"
        THEN runGit(o, <<S_stash, K_push>> \o (IF Truthy(o.p.message) THEN <<F_m, o.p.message>> ELSE <<>>), "run")
      ELSE IF action = "pop" THEN runGit(o, <<S_stash, K_pop, StashRef(o)>>, "run")
      ELSE IF action = "drop" THEN runGit(o, <<S_stash, K_drop, StashRef(o)>>, "run")
      ELSE IF action = "show" THEN runGit(o, <<S_stash, K_show, F_p, StashRef(o)>>, "run")
      ELSE err(o, "unknown stash action", <<>>)

\* requireRepo passed
GitStash(s) ==
  /\ RepoOk(s, "git_stash")
  /\ op' = [op EXCEPT ![s] = git_stash_body(@)]
  /\ UNCHANGED <<cfg, head, files, vin, vout, rg>>

git_stash_result(o, r) ==
  LET action == StashAction(o)
  IN  IF ~Ok(r) THEN err(o, "", r.stderr)
      ELSE IF action = "show" THEN text(o, "", truncateOutput(filterBinaryDiffs(r.stdout), MAX_DIFF_LINES, L_stash_diff))
      ELSE IF r.stdout # <<>> THEN text(o, "", r.stdout)
      ELSE IF action = "list" THEN text(o, "no stashes", <<>>)
      ELSE IF action = "push" THEN text(o, "stashed", <<>>)
      ELSE IF action = "pop" THEN text(o, "popped stash", <<>>)
      ELSE text(o, "dropped stash", <<>>)

GitStashDone(s) ==
  /\ RunDone(s, "git_stash")
  /\ \E r \in Resolved(op[s], RunOutcomes) : op' = [op EXCEPT ![s] = git_stash_result(@, r)]

(***************************************************************************)
(* git_pr                                                                  *)
(***************************************************************************)
GhMissing == "gh CLI is not installed. install it from https://cli.github.com/ to create PRs."
TitleDash == "PR title cannot start with a dash"

\* requireRepo passed: gh --version is awaited
GitPr(s) ==
  /\ RepoOk(s, "git_pr")
  /\ op' = [op EXCEPT ![s] = execGh(@, <<G_version>>, "ghVersion")]
  /\ UNCHANGED <<cfg, head, files, vin, vout, rg>>

\* the first label that validateLabel rejects, or 0
FirstBadLabel(labels) ==
  IF labels # NoList /\ \E i \in 1..Len(labels) : validateLabel(labels[i]) # null
    THEN CHOOSE i \in 1..Len(labels) :
           /\ validateLabel(labels[i]) # null
           /\ \A j \in 1..(i - 1) : validateLabel(labels[j]) = null
    ELSE 0

\* the argument vector of gh pr create
git_pr_args(o, bodyFile) ==
  LET p == o.p
  IN  <<G_pr, G_create, G_title, p.title, G_body_file, PathArg(bodyFile)>>
        \o (IF Truthy(p.base) THEN <<G_base, p.base>> ELSE <<>>)
        \o (IF p.draft THEN <<G_draft>> ELSE <<>>)
        \o (IF p.labels # NoList /\ Len(p.labels) > 0 THEN <<G_label, Join(p.labels, <<",">>)>> ELSE <<>>)

\* the try block of git_pr up to its await: the body file is written, base is
\* validated and gh pr create is spawned; finally unlinks on the early exits
git_pr_write(s, o) ==
  \E uuid \in randomUUID, w \in WriteOutcomes :
    LET bodyFile == TmpPath("body", uuid)
        body == Coalesce(o.p.body, <<>>)
        held == [o EXCEPT !.msgFile = bodyFile, !.wrote = TRUE]
    IN  IF w # "written"
          THEN /\ files' = unlinkSync(writeFileSyncThrows(files, bodyFile, s, w = "failed-opened"), bodyFile)
               /\ op' = [op EXCEPT ![s] = throw(o, "writeFileSync failed")]
        ELSE IF Truthy(o.p.base) /\ validateRef(o.p.base) # null
          THEN /\ files' = unlinkSync(writeFileSync(files, bodyFile, body, s), bodyFile)
               /\ op' = [op EXCEPT ![s] = err(held, validateRef(o.p.base), <<>>)]
        ELSE /\ files' = writeFileSync(files, bodyFile, body, s)
             /\ op' = [op EXCEPT ![s] = execGh(held, git_pr_args(o, bodyFile), "ghCreate")]

\* gh --version ended: the title and the labels are validated, then the try block
GitPrCheck(s) ==
  /\ op[s].pc = "ghVersion"
  /\ \E x \in {Exit0(OutText, <<>>)} \cup Failures :
       LET o == op[s]
       IN  IF x.err.isErr THEN op' = [op EXCEPT ![s] = err(o, GhMissing, <<>>)] /\ files' = files
           ELSE IF StartsWith(o.p.title, <<"-">>) THEN op' = [op EXCEPT ![s] = err(o, TitleDash, <<>>)] /\ files' = files
           ELSE IF FirstBadLabel(o.p.labels) # 0
             THEN /\ op' = [op EXCEPT ![s] = err(o, validateLabel(o.p.labels[FirstBadLabel(o.p.labels)]), <<>>)]
                  /\ files' = files
           ELSE git_pr_write(s, o)
  /\ UNCHANGED <<cfg, head, vin, vout, rg>>

git_pr_result(o, r) ==
  IF ~Ok(r) THEN err(o, "", IF r.stderr # <<>> THEN r.stderr ELSE r.stdout)
  ELSE text(o, "", IF r.stdout # <<>> THEN r.stdout ELSE r.stderr)

\* the finally block of git_pr: the file to unlink
git_pr_finally(fs, o) == unlinkSync(fs, o.msgFile)

\* gh pr create ended: the result is returned through finally
GitPrDone(s) ==
  /\ op[s].pc = "ghCreate"
  /\ \E x \in RunOutcomes :
       op' = [op EXCEPT ![s] = git_pr_result(@, execFileCallback(x.err, x.stdout, x.stderr))]
  /\ files' = git_pr_finally(files, op[s])
  /\ UNCHANGED <<cfg, head, vin, vout, rg>>

(***************************************************************************)
(* The requests and configurations explored.                               *)
(***************************************************************************)
B_main == <<"m", "a", "i", "n">>
B_master == <<"m", "a", "s", "t", "e", "r">>
B_feature_x == <<"f", "e", "a", "t", "u", "r", "e", "-", "x">>
RawForce == RawForceFlag     \* the unconditional flag, as a caller's value
RawF == <<"-", "f">>
DashRf == <<"-", "r", "f">>
BotPrefix == <<"[", "b", "o", "t", "]", " ">>
FixBug == <<"f", "i", "x", " ", "b", "u", "g">>

\* the plugin configuration as written by the operator: any subset of the fields
RawConfigs ==
  LET flags == {[allowForcePush |-> a, allowMainCommit |-> m] : a, m \in BOOLEAN}
      with(r, f, v) == [g \in DOMAIN r \cup {f} |-> IF g = f THEN v ELSE r[g]]
  IN  flags
        \cup {with(r, "commitPrefix", BotPrefix) : r \in flags}
        \cup {with(r, "protectedBranches", <<B_feature_x>>) : r \in flags}
        \cup {with(with(r, "commitPrefix", BotPrefix), "protectedBranches", <<B_feature_x>>) : r \in flags}

Heads == {B_main, B_feature_x, Detached}

BranchRequests ==
  {[action |-> a, name |-> Undef, startPoint |-> Undef, all |-> al] : a \in {"undefined", "list"}, al \in BOOLEAN}
    \cup {[action |-> "create", name |-> n, startPoint |-> sp, all |-> FALSE] :
            n \in {Undef, B_feature_x, DashRf}, sp \in {Undef, B_main, RawF, <<"H", "E", "A", "D", "~", "1">>}}
    \cup {[action |-> a, name |-> n, startPoint |-> Undef, all |-> FALSE] :
            a \in {"switch", "delete", "prune"}, n \in {Undef, <<>>, B_main, B_master, B_feature_x, DashRf}}

PushRequests ==
  {p \in [remote : {Undef, RawForce},
          branch : {Undef, <<>>, B_main, B_feature_x, RawForce, T_detached \o <<")">>},
          force : BOOLEAN, setUpstream : BOOLEAN, dryRun : BOOLEAN] :
     p.dryRun => p.setUpstream}

CommitRequests ==
  [message : {FixBug, <<"-", "-", "a", "m", "e", "n", "d">>, <<"a", "LF", "SURROGATE">>},
   files : {NoList, <<>>, << <<"a">> >>, << <<"a">>, <<"-", "b">> >>, << <<"-", "b">>, <<"a", ";">> >>},
   all : BOOLEAN]

BadRef == <<"a", ";", "b">>

DiffRequests ==
  {p \in [staged : BOOLEAN, nameOnly : BOOLEAN, ref1 : {Undef, B_main, RawF}, ref2 : {Undef, BadRef},
          paths : {NoList, << <<"a", " ", "b">> >>, << <<"a">>, <<"-", "b">> >>}] :
     p.nameOnly => p.staged}

LogRequests ==
  {p \in [count : {NoNum, 250}, oneline : BOOLEAN, ref : {Undef, RawF}, author : {Undef, <<"a", "l">>, RawF},
          since : {Undef, <<"$", "x">>}, grep : {Undef, <<"f", "i", "x">>},
          paths : {NoList, << <<"a">> >>, << <<"-", "b">> >>}] :
     p.oneline = (p.count = NoNum)}

PullRequests ==
  [rebase : BOOLEAN, remote : {Undef, DEFAULTS.defaultRemote, RawF}, branch : {Undef, B_main, BadRef}]

BlameRequests == [file : {<<"a">>, <<"-", "b">>, <<>>}, startLine : {NoNum, 0, 3}, endLine : {NoNum, 9}]

PrRequests ==
  {p \in [title : {FixBug, RawF}, body : {Undef, <<"b", "LF", "SURROGATE">>}, base : {Undef, B_main, RawF},
          draft : BOOLEAN, labels : {NoList, << <<"b", "u", "g">>, <<"u", "i">> >>, << <<"-", "l">> >>}] :
     p.draft = (p.body = Undef)}

DashAll == <<"-", "-", "a", "l", "l">>

StashRequests ==
  {p \in [action : {"undefined", "list", "push", "pop", "drop", "show", "clear"},
          message : {Undef, FixBug, DashAll}, index : {NoNum, 2}] :
     /\ p.message # Undef => p.action \in {"undefined", "push"}
     /\ p.index # NoNum => p.action \in {"pop", "drop", "show"}}

Requests ==
  {[tool |-> "git_branch", p |-> p] : p \in BranchRequests}
    \cup {[tool |-> "git_push", p |-> p] : p \in PushRequests}
    \cup {[tool |-> "git_commit", p |-> p] : p \in CommitRequests}
    \cup {[tool |-> "git_diff", p |-> p] : p \in DiffRequests}
    \cup {[tool |-> "git_log", p |-> p] : p \in LogRequests}
    \cup {[tool |-> "git_pull", p |-> p] : p \in PullRequests}
    \cup {[tool |-> "git_blame", p |-> p] : p \in BlameRequests}
    \cup {[tool |-> "git_pr", p |-> p] : p \in PrRequests}
    \cup {[tool |-> "git_stash", p |-> p] : p \in StashRequests}

\* execute is called: cwd is resolved and requireRepo awaits isGitRepo
Execute(s, rq) ==
  /\ op[s].pc = "idle"
  /\ op' = [op EXCEPT ![s] = runGit([Idle EXCEPT !.tool = rq.tool, !.p = rq.p],
                                    <<S_rev_parse, F_is_inside_work_tree>>, "requireRepo")]
  /\ UNCHANGED <<cfg, head, files, vin, vout, rg>>

Begin(s) == \E rq \in Requests : Execute(s, rq)

NoOutcome == [done |-> FALSE]
NoCall == [pc |-> "none"]

\* register(api) has run: cfg is resolved, no operation is running
Init ==
  /\ cfg \in {resolveConfig(raw) : raw \in RawConfigs}
  /\ head \in Heads
  /\ op = [s \in Slots |-> Idle]
  /\ files = {}
  /\ vin = <<>>
  /\ vout = NoOutcome
  /\ rg = NoCall

Step(s) ==
  \/ Begin(s)
  \/ RequireRepoFailed(s)
  \/ GitBranch(s)
  \/ GitBranchDone(s)
  \/ GitPush(s)
  \/ GitPushSymbolicRef(s)
  \/ GitPushRevParse(s)
  \/ GitPushDone(s)
  \/ GitCommit(s)
  \/ GitCommitSymbolicRef(s)
  \/ GitCommitRevParse(s)
  \/ GitCommitAdd(s)
  \/ GitCommitDone(s)
  \/ GitDiff(s)
  \/ GitDiffDone(s)
  \/ GitLog(s)
  \/ GitLogDone(s)
  \/ GitPull(s)
  \/ GitPullDone(s)
  \/ GitBlame(s)
  \/ GitBlameDone(s)
  \/ GitPr(s)
  \/ GitPrCheck(s)
  \/ GitPrDone(s)
  \/ GitStash(s)
  \/ GitStashDone(s)
  \/ Return(s)

\* the tools, one operation at a time
Next == Step(1)

Spec == Init /\ [][Next]_vars

(***************************************************************************)
(* Concurrent operations on the temporary files: git_commit and git_pr     *)
(* run in every slot, interleaved at their awaits.                         *)
(***************************************************************************)
ConcRequests ==
  {[tool |-> "git_commit", p |-> p] :
     p \in [message : {FixBug}, files : {<< <<"a">> >>}, all : {FALSE}]}
    \cup {[tool |-> "git_pr", p |-> p] :
            p \in [title : {FixBug}, body : {<<"b">>}, base : {Undef, RawF}, draft : {FALSE}, labels : {NoList}]}

ConcInit ==
  /\ cfg = resolveConfig([allowMainCommit |-> TRUE, commitPrefix |-> BotPrefix])
  /\ head = B_main
  /\ op = [s \in Slots |-> Idle]
  /\ files = {}
  /\ vin = <<>>
  /\ vout = NoOutcome
  /\ rg = NoCall

ConcBegin(s) == \E rq \in ConcRequests : Execute(s, rq)

ConcStep(s) ==
  \/ ConcBegin(s)
  \/ RequireRepoFailed(s)
  \/ GitCommit(s)
  \/ GitCommitSymbolicRef(s)
  \/ GitCommitRevParse(s)
  \/ GitCommitAdd(s)
  \/ GitCommitDone(s)
  \/ GitPr(s)
  \/ GitPrCheck(s)
  \/ GitPrDone(s)
  \/ Return(s)

ConcNext == \E s \in Slots : ConcStep(s)

SpecConc == ConcInit /\ [][ConcNext]_vars

(***************************************************************************)
(* The validators on every token up to MaxLen characters.                  *)
(***************************************************************************)
\* the shell metacharacters, as the specification lists them
ShellMetacharacters ==
  {";", "&", "|", "BACKTICK", "$", "(", ")", "{", "}", "!", "#", "~", "<", ">", "*", "?", "[", "]",
   "LF", "CR", "BACKSLASH", "'", "DQUOTE"}

TokenChars == ShellMetacharacters \cup {"a", "Z", "0", ".", "_", "/", "-", " ", "^", "@", ",", "k"}

Tokens == UNION {[1..n -> TokenChars] : n \in 0..MaxLen}

InitV ==
  /\ vin \in Tokens
  /\ vout = NoOutcome
  /\ cfg = resolveConfig(<<>>)
  /\ head = B_main
  /\ op = [s \in Slots |-> Idle]
  /\ files = {}
  /\ rg = NoCall

\* every validator is applied to the token
Validate ==
  /\ ~vout.done
  /\ vout' = [done |-> TRUE,
              branch |-> validateBranchName(vin),
              path |-> validateFilePath(vin),
              ref |-> validateRef(vin),
              remote |-> validateRemoteName(vin),
              author |-> validateLogFilter(vin, "author"),
              since |-> validateLogFilter(vin, "since"),
              grep |-> validateLogFilter(vin, "grep"),
              label |-> validateLabel(vin)]
  /\ UNCHANGED <<cfg, head, op, files, vin, rg>>

NextV == Validate

SpecV == InitV /\ [][NextV]_vars

(***************************************************************************)
(* One call of runGit with any argument vector, and its child process.     *)
(***************************************************************************)
ArgTokens ==
  ALLOWED_SUBCOMMANDS \cup {<<>>, <<"g", "c">>, <<"-", "c">>, <<"S", "t", "a", "t", "u", "s">>, F_short, <<"a", "NUL">>}

\* child_process.spawn refuses an argument that holds a null byte: it throws
\* ERR_INVALID_ARG_VALUE before a child exists.  Runtimes without this test
\* start the child.
HasNullByte(args) == \E i \in 1..Len(args) : Includes(args[i], <<"NUL">>)

ExecFileThrows(args) == IF HasNullByte(args) THEN BOOLEAN ELSE {FALSE}

ArgVectors == UNION {[1..n -> ArgTokens] : n \in 0..MaxArgs}

NoResult == [stdout |-> <<>>, stderr |-> <<>>, exitCode |-> JsNull]

InitRunGit ==
  /\ rg \in {[pc |-> "called", args |-> a, execFile |-> <<>>, resolved |-> 0, err |-> NoErr, result |-> NoResult] : a \in ArgVectors}
  /\ cfg = resolveConfig(<<>>)
  /\ head = B_main
  /\ op = [s \in Slots |-> Idle]
  /\ files = {}
  /\ vin = <<>>
  /\ vout = NoOutcome

\* the body of the promise: the guard resolves at once, or execFile is called;
\* an exception of execFile leaves the executor and rejects the promise
RunGitCall ==
  /\ rg.pc = "called"
  /\ \E thrown \in ExecFileThrows(rg.args) :
       rg' = IF runGitBlocked(rg.args)
               THEN [rg EXCEPT !.pc = "resolved", !.resolved = @ + 1, !.result = runGitBlockedResult(rg.args)]
             ELSE IF thrown THEN [rg EXCEPT !.pc = "rejected"]
             ELSE [rg EXCEPT !.pc = "running", !.execFile = Append(@, rg.args)]
  /\ UNCHANGED <<cfg, head, op, files, vin, vout>>

\* execFile's callback: the child ended, failed to start or was killed
ExecFileCallback ==
  /\ rg.pc = "running"
  /\ \E x \in RunOutcomes :
       rg' = [rg EXCEPT !.pc = "resolved", !.resolved = @ + 1, !.err = x.err,
                        !.result = execFileCallback(x.err, x.stdout, x.stderr)]
  /\ UNCHANGED <<cfg, head, op, files, vin, vout>>

NextRunGit == RunGitCall \/ ExecFileCallback

SpecRunGit == InitRunGit /\ [][NextRunGit]_vars

\* the executor runs at once, and execFile with a timeout calls back: the
\* child exits, fails to start or is killed when the timeout expires
SpecRunGitFair == SpecRunGit /\ WF_vars(RunGitCall) /\ WF_vars(ExecFileCallback)

(***************************************************************************)
(* Properties.                                                             *)
(***************************************************************************)
\* branch is an entry of cfg.protectedBranches
InProtectedBranches(branch) == \E i \in DOMAIN cfg.protectedBranches : cfg.protectedBranches[i] = branch

\* the operation in o has spawned `git <sub> ...`
Spawned(o, sub) == \E i \in 1..Len(o.spawned) : o.spawned[i].exe = "git" /\ o.spawned[i].args[1] = sub

Elements(a) == {a[k] : k \in 1..Len(a)}

\* C1: a delete of a protected branch and a force push of a protected branch
\* return an error and never spawn git branch -d / git push, whatever
\* allowForcePush and allowMainCommit are.
C1_ProtectedBranchNeverDeletedOrForcePushed ==
  \A s \in Slots :
    LET o == op[s]
    IN  /\ (o.tool = "git_branch" /\ o.p.action = "delete" /\ InProtectedBranches(o.p.name)) =>
             /\ ~Spawned(o, S_branch)
             /\ o.pc \in {"requireRepo", "returned"}
             /\ o.pc = "returned" => o.ret.kind = "error"
        /\ (o.tool = "git_push" /\ o.p.force /\ InProtectedBranches(o.p.branch)) =>
             /\ ~Spawned(o, S_push)
             /\ o.pc \in {"requireRepo", "returned"}
             /\ o.pc = "returned" => o.ret.kind = "error"

\* a force push of a protected branch was denied although force pushes are allowed
C1_Witness ==
  \E s \in Slots :
    /\ op[s].tool = "git_push" /\ op[s].p.force /\ InProtectedBranches(op[s].p.branch)
    /\ cfg.allowForcePush /\ cfg.allowMainCommit
    /\ op[s].pc = "returned" /\ op[s].ret.msg = ForcePushProtected

\* C2: no argument vector of git_push holds --force or -f; git push carries
\* --force-with-lease exactly when force was requested (and permitted).
C2_PushNeverUnconditionalForce ==
  \A s \in Slots :
    op[s].tool = "git_push" =>
      \A i \in 1..Len(op[s].spawned) :
        LET a == op[s].spawned[i].args
        IN  /\ Elements(a) \cap {<<"-", "-", "f", "o", "r", "c", "e">>, <<"-", "f">>} = {}
            /\ a[1] = S_push => (op[s].p.force <=> F_force_with_lease \in Elements(a))

\* a permitted force push is running, with the lease flag
C2_Witness ==
  \E s \in Slots :
    /\ op[s].tool = "git_push" /\ op[s].pc = "run" /\ op[s].p.force
    /\ op[s].pending[1] = S_push /\ F_force_with_lease \in Elements(op[s].pending)

\* C3 as claimed: with allowForcePush = false, every git_push with force = true
\* returns the policy error that names allowForcePush.
C3_AlwaysThePolicyError ==
  \A s \in Slots :
    (op[s].tool = "git_push" /\ op[s].p.force /\ ~cfg.allowForcePush /\ op[s].pc = "returned") =>
      /\ op[s].ret.kind = "error" /\ op[s].ret.msg = ForcePushDisabled
      /\ ~Spawned(op[s], S_push)

\* the error of the checks that git_push makes before the force-push gate, or null
EarlierPushError(o) ==
  IF o.ret.msg = NotARepo THEN NotARepo
  ELSE IF validateRemoteName(PushRemote(o)) # null THEN validateRemoteName(PushRemote(o))
  ELSE IF Truthy(o.branch) /\ ~StartsWith(o.branch, T_detached) /\ validateBranchName(o.branch) # null
    THEN validateBranchName(o.branch)
  ELSE null

\* C3, amended: with allowForcePush = false, every git_push with force = true
\* returns an error and spawns no git push; the error is the policy error that
\* names allowForcePush unless an earlier check (repository, remote name,
\* branch name) has failed, and then it is that check's error.
C3_ForcePushDisabled ==
  \A s \in Slots :
    LET o == op[s]
    IN  (o.tool = "git_push" /\ o.p.force /\ ~cfg.allowForcePush) =>
          /\ ~Spawned(o, S_push)
          /\ o.pc = "returned" =>
               /\ o.ret.kind = "error"
               /\ o.ret.msg = IF EarlierPushError(o) # null THEN EarlierPushError(o) ELSE ForcePushDisabled

\* the scenario of the specification: force push of feature-x, not protected, denied
C3_Witness ==
  \E s \in Slots :
    /\ op[s].tool = "git_push" /\ op[s].p.force /\ ~cfg.allowForcePush
    /\ op[s].p.branch = B_feature_x /\ ~InProtectedBranches(B_feature_x)
    /\ op[s].pc = "returned" /\ op[s].ret.msg = ForcePushDisabled /\ ~Spawned(op[s], S_push)

\* C4: when getCurrentBranch returned a protected branch and allowMainCommit
\* is false, git_commit returns the error that names allowMainCommit; neither
\* git add nor git commit is spawned and no message file is created.
C4_MainCommitGate ==
  \A s \in Slots :
    LET o == op[s]
    IN  (o.tool = "git_commit" /\ InProtectedBranches(o.branch) /\ ~cfg.allowMainCommit) =>
          /\ o.pc = "returned" /\ o.ret.kind = "error" /\ o.ret.msg = MainCommitBlocked
          /\ ~Spawned(o, S_add) /\ ~Spawned(o, S_commit)
          /\ ~o.wrote /\ o.msgFile = NoFile /\ \A f \in files : f.owner # s

\* a commit on protected main was denied
C4_Witness ==
  \E s \in Slots :
    /\ op[s].tool = "git_commit" /\ op[s].branch = B_main /\ InProtectedBranches(B_main)
    /\ ~cfg.allowMainCommit /\ op[s].ret.msg = MainCommitBlocked /\ op[s].p.files # NoList

ValidationReasons ==
  {"branch name cannot be empty", "branch name cannot start with a dash (looks like a flag)",
   "invalid branch name", "branch name contains invalid characters",
   "branch name contains invalid characters: only a-z, 0-9, '.', '_', '/', '-' allowed",
   "file path cannot be empty", "file path cannot start with a dash",
   "ref cannot be empty", "ref cannot start with a dash", "ref contains invalid characters",
   "remote name cannot be empty", "remote name cannot start with a dash", "remote name contains invalid characters",
   "filter cannot be empty", "filter cannot start with a dash", "filter contains invalid characters",
   "label cannot be empty", "label cannot start with a dash", "label contains invalid characters",
   "branch name required for action", "unknown action", TitleDash}

PolicyReasons == {ForcePushDisabled, ForcePushProtected, MainCommitBlocked, "cannot delete protected branch"}

Denied(o) == o.pc = "returned" /\ o.ret.kind = "error" /\ o.ret.msg \in ValidationReasons \cup PolicyReasons

\* the child processes that only inspect: requireRepo, getCurrentBranch, the gh check
Probes ==
  {[exe |-> "git", args |-> <<S_rev_parse, F_is_inside_work_tree>>],
   [exe |-> "git", args |-> <<S_symbolic_ref, F_short, F_HEAD>>],
   [exe |-> "git", args |-> <<S_rev_parse, F_short, F_HEAD>>],
   [exe |-> "gh", args |-> <<G_version>>]}

\* C5 as claimed: an operation that returns a validation or policy error has
\* spawned no child process at all.
C5_NoProcessBeforeDenial ==
  \A s \in Slots : Denied(op[s]) => op[s].spawned = <<>>

\* C5, amended: an operation that returns a validation or policy error has not
\* spawned the command it was asked to run; the only child processes before
\* the error are the probes (git rev-parse --is-inside-work-tree of
\* requireRepo, git symbolic-ref / git rev-parse --short HEAD of
\* getCurrentBranch, gh --version).
C5_OnlyProbesBeforeDenial ==
  \A s \in Slots :
    Denied(op[s]) => \A i \in 1..Len(op[s].spawned) : op[s].spawned[i] \in Probes

\* git_pr rejected its base ref, after rev-parse and gh --version had run
C5_Witness ==
  \E s \in Slots :
    /\ op[s].tool = "git_pr" /\ Denied(op[s]) /\ op[s].ret.msg = "ref cannot start with a dash"
    /\ Len(op[s].spawned) = 2

\* C8 as claimed: the message file holds exactly prefix + message, for every
\* message, and git commit gets the message only as --file <path>.
C8_FileHoldsExactlyTheMessage ==
  \A s \in Slots :
    LET o == op[s]
    IN  (o.tool = "git_commit" /\ o.pc = "commit") =>
          /\ \E f \in files : f.path = o.msgFile /\ f.content = cfg.commitPrefix \o o.p.message
          /\ o.pending \in {<<S_commit, F_file, PathArg(o.msgFile)>>, <<S_commit, F_a, F_file, PathArg(o.msgFile)>>}
          /\ o.p.message \notin Elements(o.pending)

\* C8, amended: for every message without an unpaired surrogate the message
\* file holds exactly prefix + message (an unpaired surrogate is stored as
\* U+FFFD, every other character as it is), and the argument vector of git
\* commit is commit [-a] --file <path>: the message is no element of it.
C8_FileHoldsTheEncodedMessage ==
  \A s \in Slots :
    LET o == op[s]
        m == cfg.commitPrefix \o o.p.message
    IN  (o.tool = "git_commit" /\ o.pc = "commit") =>
          /\ \E f \in files :
               /\ f.path = o.msgFile
               /\ Len(f.content) = Len(m)
               /\ \A i \in 1..Len(m) : f.content[i] = IF m[i] = "SURROGATE" THEN "U+FFFD" ELSE m[i]
               /\ "SURROGATE" \notin Elements(m) => f.content = m
          /\ o.pending \in {<<S_commit, F_file, PathArg(o.msgFile)>>, <<S_commit, F_a, F_file, PathArg(o.msgFile)>>}
          /\ o.p.message \notin Elements(o.pending)

\* "fix bug" with the prefix "[bot] ": the file holds "[bot] fix bug"
C8_Witness ==
  \E s \in Slots :
    /\ op[s].tool = "git_commit" /\ op[s].pc = "commit"
    /\ cfg.commitPrefix = BotPrefix /\ op[s].p.message = FixBug
    /\ \E f \in files : f.path = op[s].msgFile /\ f.content = BotPrefix \o FixBug

\* the 21 subcommands of the allowlist, as the specification lists them
Allowlisted ==
  {S_status, S_diff, S_log, S_branch, S_add, S_commit, S_push, S_pull, S_stash, S_blame, S_rev_parse,
   S_symbolic_ref, S_remote, S_checkout, S_switch, S_fetch, S_merge, S_rebase, S_tag, S_show, S_config}

FirstAllowlisted(args) == args # <<>> /\ args[1] \in Allowlisted

\* C6: an argument vector whose first element is missing or not allowlisted
\* makes runGit resolve with exit code 1, empty stdout and a "blocked" stderr,
\* without execFile; execFile only ever gets an allowlisted first argument.
C6_OnlyAllowlistedSubcommandsRun ==
  /\ Cardinality(Allowlisted) = 21
  /\ rg.pc # "none" =>
       /\ (~FirstAllowlisted(rg.args)) =>
            /\ rg.pc \in {"called", "resolved"}
            /\ rg.execFile = <<>>
            /\ rg.pc = "resolved" =>
                 /\ rg.result.exitCode = Num(1)
                 /\ rg.result.stdout = <<>>
                 /\ StartsWith(rg.result.stderr, <<"b", "l", "o", "c", "k", "e", "d">>)
       /\ \A i \in 1..Len(rg.execFile) : FirstAllowlisted(rg.execFile[i])

\* runGit(["gc", ...]) resolved as blocked
C6_Witness ==
  /\ rg.pc = "resolved" /\ rg.args # <<>> /\ rg.args[1] = <<"g", "c">>
  /\ rg.result.exitCode = Num(1) /\ rg.execFile = <<>>

Running(o) == o.pc \in {"commit", "ghCreate"}

HasMetacharacter(s) == \E i \in 1..Len(s) : s[i] \in ShellMetacharacters

\* C9: validateRef, validateRemoteName, validateLabel and validateLogFilter
\* reject every string that holds a shell metacharacter.
C9_MetacharactersRejected ==
  (vout.done /\ HasMetacharacter(vin)) =>
    /\ vout.ref # null /\ vout.remote # null /\ vout.label # null
    /\ vout.author # null /\ vout.since # null /\ vout.grep # null

\* a double quote inside a token
C9_Witness == vout.done /\ vin = <<"a", "DQUOTE">> /\ vout.ref = "ref contains invalid characters"

\* C10: every validator rejects every string that begins with "-".
C10_DashPrefixRejected ==
  (vout.done /\ vin # <<>> /\ vin[1] = "-") =>
    /\ vout.branch # null /\ vout.ref # null /\ vout.path # null /\ vout.remote # null
    /\ vout.author # null /\ vout.since # null /\ vout.grep # null /\ vout.label # null

\* the values a caller supplied as branch, ref, path, remote or label
RoleValues(o) ==
  LET p == o.p
  IN  CASE o.tool = "git_branch" -> {p.name, p.startPoint}
        [] o.tool = "git_push" -> {p.remote, p.branch}
        [] o.tool = "git_commit" -> Elements(p.files)
        [] o.tool = "git_diff" -> {p.ref1, p.ref2} \cup Elements(p.paths)
        [] o.tool = "git_log" -> {p.ref} \cup Elements(p.paths)
        [] o.tool = "git_pull" -> {p.remote, p.branch}
        [] o.tool = "git_blame" -> {p.file}
        [] o.tool = "git_pr" -> {p.base} \cup Elements(p.labels)
        [] OTHER -> {}

\* At the call sites: a value that begins with "-" and was supplied as a branch,
\* ref, path, remote or label is an element of no argument vector spawned.
DashValueNeverAnArgument ==
  \A s \in Slots : \A i \in 1..Len(op[s].spawned) :
    \A v \in RoleValues(op[s]) : StartsWith(v, <<"-">>) => v \notin Elements(op[s].spawned[i].args)

C10_Witness == vout.done /\ vin = <<"-", "a">> /\ vout.path = "file path cannot start with a dash"

(***************************************************************************)
(* truncateOutput on every text of up to MaxText characters, applied to    *)
(* its own result a second time.                                           *)
(***************************************************************************)
Texts == UNION {[1..n -> {"a", "b", "LF"}] : n \in 0..MaxText}

Limits == 1..MaxLimit

InitTruncate ==
  /\ vin \in [text : Texts, maxLines : Limits, label : {L_log, L_diff}]
  /\ vout = [done |-> FALSE, results |-> <<>>]
  /\ cfg = resolveConfig(<<>>)
  /\ head = B_main
  /\ op = [s \in Slots |-> Idle]
  /\ files = {}
  /\ rg = NoCall

\* truncateOutput(text, maxLines, label), then truncateOutput of what it returned
Truncate ==
  /\ Len(vout.results) < 2
  /\ LET x == IF vout.results = <<>> THEN vin.text ELSE vout.results[Len(vout.results)]
     IN  vout' = [done |-> TRUE, results |-> Append(vout.results, truncateOutput(x, vin.maxLines, vin.label))]
  /\ UNCHANGED <<cfg, head, op, files, vin, rg>>

NextTruncate == Truncate

SpecTruncate == InitTruncate /\ [][NextTruncate]_vars

\* C11: validateFilePath rejects every path that starts with "-" and every
\* path that holds a shell metacharacter.
C11_PathValidationBlocksBoth ==
  (vout.done /\ (StartsWith(vin, <<"-">>) \/ HasMetacharacter(vin))) => vout.path # null

\* C12: truncateOutput is idempotent: truncating what it returned, with the
\* same limit and label, returns the same text.
C12_TruncationIdempotent ==
  Len(vout.results) = 2 => vout.results[2] = vout.results[1]

\* the first n lines of a text
FirstLines(x, n) == SubSeq(Split(x), 1, n)

TruncationLine(k, label) ==
  <<".", ".", ".", " ", "t", "r", "u", "n", "c", "a", "t", "e", "d", " ", "(">> \o NumToStr(k)
    \o <<" ", "m", "o", "r", "e", " ", "l", "i", "n", "e", "s", " ", "o", "f", " ">> \o label \o <<")">>

C14_ExitCodeIsInteger ==
  rg.pc = "resolved" =>
    LET e == rg.result.exitCode
    IN  /\ e.type = "number"
        /\ e = Num(0) => (rg.execFile # <<>> /\ ~rg.err.isErr)
        /\ (rg.err.isErr /\ rg.err.code.type = "number") => e = rg.err.code
        /\ rg.err \in {ErrSpawn, ErrKilled, ErrMaxBuffer} => e = Num(1)

\* the file paths a caller supplied to the command of an argument vector
CallerPaths(o, a) ==
  LET list(l) == IF l = NoList THEN <<>> ELSE l
  IN  IF o.tool = "git_diff" /\ a[1] = S_diff THEN list(o.p.paths)
      ELSE IF o.tool = "git_log" /\ a[1] = S_log THEN list(o.p.paths)
      ELSE IF o.tool = "git_commit" /\ a[1] = S_add THEN list(o.p.files)
      ELSE IF o.tool = "git_blame" /\ a[1] = S_blame THEN <<o.p.file>>
      ELSE <<>>

\* C15: in every argument vector that carries caller-supplied paths a "--"
\* element comes before the first path; what follows the first "--" is
\* exactly the caller's paths, each accepted by validateFilePath, and nothing
\* before it is a "--".
C15_SeparatorBeforePaths ==
  \A s \in Slots : \A i \in 1..Len(op[s].spawned) :
    LET a == op[s].spawned[i].args
        paths == CallerPaths(op[s], a)
    IN  (op[s].spawned[i].exe = "git" /\ paths # <<>>) =>
          /\ \E k \in 1..Len(a) :
               /\ a[k] = <<"-", "-">>
               /\ \A j \in 1..(k - 1) : a[j] # <<"-", "-">>
               /\ SubSeq(a, k + 1, Len(a)) = paths
          /\ \A j \in 1..Len(paths) : validateFilePath(paths[j]) = null /\ ~StartsWith(paths[j], <<"-">>)

\* git diff main -- "a b" is running
C15_Witness ==
  \E s \in Slots :
    /\ op[s].tool = "git_diff" /\ op[s].pc = "run"
    /\ op[s].p.ref1 = B_main /\ op[s].p.paths = << <<"a", " ", "b">> >>
    /\ op[s].pending = <<S_diff, B_main, <<"-", "-">>, <<"a", " ", "b">> >>

\* the elements that the plugin writes itself, whatever the caller passed
PluginLiterals ==
  ALLOWED_SUBCOMMANDS
    \cup {F_dashdash, F_cached, F_name_only, F_v, F_a, F_d, F_file, F_force_with_lease, F_u, F_dry_run, F_rebase,
          F_oneline, F_format, F_date_short, F_is_inside_work_tree, F_short, F_HEAD, F_m, F_p,
          K_list, K_push, K_pop, K_drop, K_show,
          G_pr, G_create, G_title, G_body_file, G_base, G_draft, G_label, G_version}

\* the caller's values that the validator of their role accepts
RoleChecked(o) ==
  LET p == o.p
      ok(vals, V(_)) == {v \in vals : V(v) = null}
      freeText(v) == validateLogFilter(v, "text")
  IN  CASE o.tool = "git_branch" -> ok({p.name}, validateBranchName) \cup ok({p.startPoint}, validateRef)
        [] o.tool = "git_push" -> ok({PushRemote(o)}, validateRemoteName) \cup ok({o.branch}, validateBranchName)
        [] o.tool = "git_commit" -> ok(Elements(p.files), validateFilePath)
        [] o.tool = "git_diff" -> ok({p.ref1, p.ref2}, validateRef) \cup ok(Elements(p.paths), validateFilePath)
        [] o.tool = "git_log" -> ok({p.ref}, validateRef) \cup ok(Elements(p.paths), validateFilePath)
        [] o.tool = "git_pull" -> ok({p.remote}, validateRemoteName) \cup ok({p.branch}, validateBranchName)
        [] o.tool = "git_blame" -> ok({p.file}, validateFilePath)
        [] o.tool = "git_pr" -> ok({p.base}, validateRef) \cup ok({p.title}, freeText)
        [] o.tool = "git_stash" -> ok({p.message}, freeText)
        [] OTHER -> {}

\* a literal with a checked value or a number inside it
LiteralWithValue(o, e) ==
  LET p == o.p
      filter(flag, v) == e = flag \o v /\ validateLogFilter(v, "text") = null
  IN  \/ e = PathArg(o.msgFile)
      \/ o.tool = "git_log" /\ (filter(F_author, p.author) \/ filter(F_since, p.since) \/ filter(F_grep, p.grep))
      \/ o.tool = "git_log" /\ \E n \in 1..MAX_LOG_ENTRIES : e = <<"-">> \o NumToStr(n)
      \/ o.tool = "git_blame" /\ p.startLine >= 1 /\ e = F_L \o NumToStr(p.startLine) \o F_plus20
      \/ o.tool = "git_blame" /\ p.startLine >= 1 /\ p.endLine >= 1
           /\ e = F_L \o NumToStr(p.startLine) \o <<",">> \o NumToStr(p.endLine)
      \/ o.tool = "git_stash" /\ \E n \in 0..9 : e = T_stash_at \o NumToStr(n) \o <<"}">>
      \/ o.tool = "git_pr" /\ p.labels # NoList /\ e = Join(p.labels, <<",">>)
           /\ \A i \in 1..Len(p.labels) : validateLabel(p.labels[i]) = null

\* C16: every element of every argument vector spawned is a literal of the
\* plugin or a caller's value that the validator of its role has accepted;
\* the stash message and the PR title count as free text.
C16_EveryElementLiteralOrValidated ==
  \A s \in Slots : \A i \in 1..Len(op[s].spawned) :
    \A e \in Elements(op[s].spawned[i].args) :
      e \in PluginLiterals \/ e \in RoleChecked(op[s]) \/ LiteralWithValue(op[s], e)

\* C17: every call of runGit resolves its promise, exactly once, and never
\* rejects it.  The part a finite run refutes: the promise is never rejected
\* and never resolved twice.
C17_ResolvesOnceNeverRejects ==
  rg.pc # "none" =>
    /\ rg.pc # "rejected"
    /\ rg.resolved <= 1
    /\ rg.pc = "resolved" <=> rg.resolved = 1

\* What stays of it: a call ends, resolved exactly once unless execFile threw.
RunGitEnds == <>(rg.pc \in {"resolved", "rejected"})

RunGitResolvesAtMostOnce == rg.pc # "none" => (rg.resolved <= 1 /\ (rg.pc = "rejected" => HasNullByte(rg.args)))

\* the branch a git push vector targets: its branch element, which follows the
\* remote, or the repository's current branch when it has none
PushTarget(o, a) == IF a[Len(a)] # PushRemote(o) THEN a[Len(a)] ELSE head

\* C18: whenever git_push spawns git push with --force-with-lease, the branch
\* the push targets is not a protected branch.
C18_LeasePushNeverTargetsProtected ==
  \A s \in Slots : \A i \in 1..Len(op[s].spawned) :
    LET a == op[s].spawned[i].args
    IN  (op[s].tool = "git_push" /\ a[1] = S_push /\ <<"-", "-", "f", "o", "r", "c", "e", "-", "w", "i", "t", "h", "-", "l", "e", "a", "s", "e">> \in Elements(a)) =>
          ~InProtectedBranches(PushTarget(op[s], a))

\* the positions in the operation's log of the vectors that begin with sub
SpawnIndexes(o, sub) == {i \in 1..Len(o.spawned) : o.spawned[i].exe = "git" /\ o.spawned[i].args[1] = sub}

FilesGiven(o) == o.p.files # NoList /\ Len(o.p.files) > 0

\* C19: git_commit keeps its order.  git add is spawned only after the
\* main-commit gate let the commit pass and every entry of files was accepted;
\* the message file is written and git commit is spawned only after git add,
\* when files were given, exited 0; each of the two is spawned at most once.
C19_CommitStepsInOrder ==
  \A s \in Slots :
    LET o == op[s]
        adds == SpawnIndexes(o, S_add)
        commits == SpawnIndexes(o, S_commit)
        probes == SpawnIndexes(o, S_symbolic_ref)
    IN  o.tool = "git_commit" =>
          /\ Cardinality(adds) <= 1 /\ Cardinality(commits) <= 1
          /\ adds # {} =>
               /\ FilesGiven(o)
               /\ \A i \in adds : \E j \in probes : j < i
               /\ ~(InProtectedBranches(o.branch) /\ ~cfg.allowMainCommit)
               /\ \A k \in 1..Len(o.p.files) : validateFilePath(o.p.files[k]) = null
          /\ (FilesGiven(o) /\ \E k \in 1..Len(o.p.files) : StartsWith(o.p.files[k], <<"-">>)) =>
               (adds = {} /\ commits = {} /\ ~o.wrote)
          /\ (commits # {} \/ o.wrote \/ o.msgFile # NoFile) =>
               /\ FilesGiven(o) => (adds # {} /\ o.addResult = Num(0) /\ \A i \in adds, j \in commits : i < j)
               /\ ~(InProtectedBranches(o.branch) /\ ~cfg.allowMainCommit)
          /\ (adds # {} /\ o.addResult # Num(0) /\ o.addResult # JsUndefined) =>
               (commits = {} /\ ~o.wrote /\ o.pc = "returned" /\ o.ret.kind = "error")

\* git add -- a exited 0 and git commit --file is running
C19_Witness ==
  \E s \in Slots :
    /\ op[s].tool = "git_commit" /\ op[s].pc = "commit" /\ op[s].p.files = << <<"a">> >>
    /\ op[s].addResult = Num(0)
    /\ SpawnIndexes(op[s], S_add) # {} /\ SpawnIndexes(op[s], S_commit) # {}

=============================================================================
